---- MODULE Spec2Model ----
(***************************************************************************)
(* Identifier formats of release-please: Version, VersionFormat (SemVer    *)
(* and Ruby dialects) and BranchName.  Strings are sequences of one-       *)
(* character strings; an optional value (a JavaScript value that may be    *)
(* undefined) is the empty sequence None or the one-element sequence       *)
(* Some(x).  The regular expressions of the source are modelled by         *)
(* matchers that follow the JavaScript matching order (leftmost start,     *)
(* greedy quantifiers, backtracking).                                      *)
(***************************************************************************)
EXTENDS Integers, Sequences, FiniteSets, TLC

VARIABLES pc, arg, ret

vars == <<pc, arg, ret>>

(***************************************************************************)
(* Characters.  The alphabet holds no line terminator, so the regular      *)
(* expression atom '.' matches every character of the alphabet.            *)
(***************************************************************************)
DigitChars == <<"0","1","2","3","4","5","6","7","8","9">>

Digit == {DigitChars[i] : i \in 1..10}

LetterChars == <<"a","b","c","d","e","f","g","h","i","j","k","l","m","n","o","p","q",
                "r","s","t","u","v","w","x","y","z">>

Letter == {LetterChars[i] : i \in 1..Len(LetterChars)}

\* the class \w
Word == Letter \cup Digit \cup {"_"}

Alphabet == Word \cup {"-", ".", "+", "/", "@"}

None == <<>>

Some(x) == <<x>>

\* JavaScript truthiness of an optional string: undefined and '' are falsy
Truthy(o) == o # None /\ o[1] # <<>>

\* the text a template literal renders for a string that may be undefined
UNDEFINED_TEXT == <<"u","n","d","e","f","i","n","e","d">>

Render(o) == IF o = None THEN UNDEFINED_TEXT ELSE o[1]

\* s has the literal lit at position i
LitAt(s, i, lit) ==
  /\ i >= 1
  /\ i + Len(lit) - 1 <= Len(s)
  /\ \A k \in 1..Len(lit) : s[i + k - 1] = lit[k]

StartsWith(s, lit) == LitAt(s, 1, lit)

\* the rest of s from position i on
From(s, i) == SubSeq(s, i, Len(s))

\* one past the end of the longest run of characters of class C that starts at i
RECURSIVE RunEnd(_, _, _)
RunEnd(s, i, C) ==
  IF i <= Len(s) /\ s[i] \in C THEN RunEnd(s, i + 1, C) ELSE i

(***************************************************************************)
(* Numbers: Number(digits) and the decimal rendering of a number in a      *)
(* template literal.                                                       *)
(***************************************************************************)
DigitVal(c) == CHOOSE d \in 0..9 : DigitChars[d + 1] = c

RECURSIVE StrToInt(_)
StrToInt(s) ==
  IF s = <<>> THEN 0
  ELSE 10 * StrToInt(SubSeq(s, 1, Len(s) - 1)) + DigitVal(s[Len(s)])

RECURSIVE IntToStr(_)
IntToStr(n) ==
  IF n < 10 THEN <<DigitChars[n + 1]>>
  ELSE IntToStr(n \div 10) \o <<DigitChars[(n % 10) + 1]>>

(***************************************************************************)
(* Version                                                                 *)
(***************************************************************************)
Version(major, minor, patch, preRelease, build) ==
  [major |-> major, minor |-> minor, patch |-> patch,
   preRelease |-> preRelease, build |-> build]

\* mutant: the prerelease is joined with '.', as the Ruby dialect joins it
VersionToString_DotSeparator(v) ==
  LET preReleasePart == IF Truthy(v.preRelease) THEN <<".">> \o v.preRelease[1] ELSE <<>>
      buildPart == IF Truthy(v.build) THEN <<"+">> \o v.build[1] ELSE <<>>
  IN  IntToStr(v.major) \o <<".">> \o IntToStr(v.minor) \o <<".">>
        \o IntToStr(v.patch) \o preReleasePart \o buildPart

VersionToString(v) ==
  LET preReleasePart == IF Truthy(v.preRelease) THEN <<"-">> \o v.preRelease[1] ELSE <<>>
      buildPart == IF Truthy(v.build) THEN <<"+">> \o v.build[1] ELSE <<>>
  IN  IntToStr(v.major) \o <<".">> \o IntToStr(v.minor) \o <<".">>
        \o IntToStr(v.patch) \o preReleasePart \o buildPart

(***************************************************************************)
(* VersionFormat: the SemVer dialect                                       *)
(***************************************************************************)
\* the least and the greatest member of a set of positions, or 0
Least(S) == IF S = {} THEN 0 ELSE CHOOSE i \in S : \A j \in S : i <= j

Greatest(S) == IF S = {} THEN 0 ELSE CHOOSE i \in S : \A j \in S : j <= i

\* (?<major>\d+)\.(?<minor>\d+)\.(?<patch>\d+) tried at position i: the ends
\* a, b, c of the three digit runs, or None.  A greedy \d+ that is followed by
\* a literal '.' takes the whole run of digits.
TriplePatch(s, a, b, c) ==
  IF c > b + 1 THEN Some([a |-> a, b |-> b, c |-> c]) ELSE None

TripleMinor(s, a, b) ==
  IF b > a + 1 /\ b <= Len(s) /\ s[b] = "."
  THEN TriplePatch(s, a, b, RunEnd(s, b + 1, Digit))
  ELSE None

TripleMajor(s, i, a) ==
  IF a > i /\ a <= Len(s) /\ s[a] = "."
  THEN TripleMinor(s, a, RunEnd(s, a + 1, Digit))
  ELSE None

TripleAt(s, i) == TripleMajor(s, i, RunEnd(s, i, Digit))

\* the leftmost position at which the unanchored triple matches, or 0
FirstTriple(s) == Least({i \in 1..Len(s) : TripleAt(s, i) # None})

NotPlus == Alphabet \ {"+"}

\* (-(?<preRelease>[^+]+))? tried at position c: the position after it, which
\* is c when the group does not take part
SemverPreReleaseEnd(s, c, e) ==
  IF c <= Len(s) /\ s[c] = "-" /\ e > c + 1 THEN e ELSE c

\* the named groups of a match that starts at i, has the triple t and whose
\* prerelease group ends at d
SemverGroups(s, i, t, d) ==
  Some([major |-> SubSeq(s, i, t.a - 1),
        minor |-> SubSeq(s, t.a + 1, t.b - 1),
        patch |-> SubSeq(s, t.b + 1, t.c - 1),
        preRelease |-> IF d > t.c THEN Some(SubSeq(s, t.c + 1, d - 1)) ELSE None,
        build |-> IF d <= Len(s) /\ s[d] = "+" THEN Some(From(s, d + 1)) ELSE None,
        start |-> i,
        end |-> IF d <= Len(s) /\ s[d] = "+" THEN Len(s) + 1 ELSE d])

SemverMatchTriple(s, i, t) ==
  SemverGroups(s, i, t, SemverPreReleaseEnd(s, t.c, RunEnd(s, t.c + 1, NotPlus)))

SemverMatchAt(s, i) ==
  IF i = 0 THEN None ELSE SemverMatchTriple(s, i, TripleAt(s, i)[1])

\* SemverVersionFormat.REGEX applied by String.match: the named groups
SemverMatch(s) == SemverMatchAt(s, FirstTriple(s))

\* the Version built from the groups of a match
SemverVersion(match) ==
  IF match = None THEN None
  ELSE Some(Version(StrToInt(match[1].major), StrToInt(match[1].minor),
                    StrToInt(match[1].patch), match[1].preRelease,
                    match[1].build))

SemverParse(versionString) == SemverVersion(SemverMatch(versionString))

\* mutant: the prerelease is joined with '.', as the Ruby dialect joins it
SemverFormat_DotSeparator(version) ==
  LET preReleasePart ==
        IF Truthy(version.preRelease) THEN <<".">> \o version.preRelease[1] ELSE <<>>
      buildPart == IF Truthy(version.build) THEN <<"+">> \o version.build[1] ELSE <<>>
  IN  IntToStr(version.major) \o <<".">> \o IntToStr(version.minor) \o <<".">>
        \o IntToStr(version.patch) \o preReleasePart \o buildPart

SemverFormat(version) ==
  LET preReleasePart ==
        IF Truthy(version.preRelease) THEN <<"-">> \o version.preRelease[1] ELSE <<>>
      buildPart == IF Truthy(version.build) THEN <<"+">> \o version.build[1] ELSE <<>>
  IN  IntToStr(version.major) \o <<".">> \o IntToStr(version.minor) \o <<".">>
        \o IntToStr(version.patch) \o preReleasePart \o buildPart

(***************************************************************************)
(* Version.compare: semver.compare of the two renderings.  The semver      *)
(* package parses each string strictly (an invalid string raises a         *)
(* TypeError), orders by major, minor and patch, then by the prerelease    *)
(* identifiers, and leaves the build out.                                  *)
(***************************************************************************)
\* the pieces of s between the separators sep
RECURSIVE Split(_, _)
Split(s, sep) ==
  LET ks == {k \in 1..Len(s) : s[k] = sep}
  IN  IF ks = {} THEN <<s>>
      ELSE LET k == CHOOSE x \in ks : \A y \in ks : x <= y
           IN  <<SubSeq(s, 1, k - 1)>> \o Split(From(s, k + 1), sep)

AllDigits(id) == id # <<>> /\ \A k \in 1..Len(id) : id[k] \in Digit

NoLeadingZero(digits) == Len(digits) = 1 \/ digits[1] # "0"

\* the characters of a prerelease or build identifier
IdentifierChars == Letter \cup Digit \cup {"-"}

ValidBuildIdentifier(id) ==
  id # <<>> /\ \A k \in 1..Len(id) : id[k] \in IdentifierChars

ValidPrereleaseIdentifier(id) ==
  ValidBuildIdentifier(id) /\ (AllDigits(id) => NoLeadingZero(id))

\* the fields of a SemVer whose text s has the triple t, a prerelease that
\* ends before e and the identifier lists pre and build
SemVerFields(s, t, e, pre, build) ==
  IF /\ NoLeadingZero(SubSeq(s, 1, t.a - 1))
     /\ NoLeadingZero(SubSeq(s, t.a + 1, t.b - 1))
     /\ NoLeadingZero(SubSeq(s, t.b + 1, t.c - 1))
     /\ (e > Len(s) \/ s[e] = "+")
     /\ \A k \in 1..Len(pre) : ValidPrereleaseIdentifier(pre[k])
     /\ \A k \in 1..Len(build) : ValidBuildIdentifier(build[k])
  THEN Some([major |-> StrToInt(SubSeq(s, 1, t.a - 1)),
             minor |-> StrToInt(SubSeq(s, t.a + 1, t.b - 1)),
             patch |-> StrToInt(SubSeq(s, t.b + 1, t.c - 1)),
             prerelease |-> pre])
  ELSE None

SemVerParts(s, t, e) ==
  SemVerFields(s, t, e,
               IF e > t.c THEN Split(SubSeq(s, t.c + 1, e - 1), ".") ELSE <<>>,
               IF e <= Len(s) /\ s[e] = "+" THEN Split(From(s, e + 1), ".") ELSE <<>>)

SemVerTriple(s, t) ==
  IF t = None THEN None
  ELSE SemVerParts(s, t[1],
                   IF t[1].c <= Len(s) /\ s[t[1].c] = "-"
                   THEN RunEnd(s, t[1].c + 1, NotPlus) ELSE t[1].c)

\* new SemVer(s): the parsed version, or None when the constructor throws
SemVerNew(s) == SemVerTriple(s, TripleAt(s, 1))

\* the UTF-16 order of the identifier characters
CodeOrder == <<"-">> \o DigitChars \o LetterChars

CharCode(ch) == CHOOSE k \in 1..Len(CodeOrder) : CodeOrder[k] = ch

\* a < b for two strings
RECURSIVE StrLess(_, _)
StrLess(a, b) ==
  IF b = <<>> THEN FALSE
  ELSE IF a = <<>> THEN TRUE
  ELSE IF a[1] # b[1] THEN CharCode(a[1]) < CharCode(b[1])
  ELSE StrLess(Tail(a), Tail(b))

compareIdentifiers(a, b) ==
  LET anum == AllDigits(a)
      bnum == AllDigits(b)
  IN  IF anum /\ bnum
      THEN IF StrToInt(a) = StrToInt(b) THEN 0
           ELSE IF StrToInt(a) < StrToInt(b) THEN -1 ELSE 1
      ELSE IF a = b THEN 0
      ELSE IF anum /\ ~bnum THEN -1
      ELSE IF bnum /\ ~anum THEN 1
      ELSE IF StrLess(a, b) THEN -1 ELSE 1

compareMain(x, y) ==
  IF x.major # y.major THEN (IF x.major < y.major THEN -1 ELSE 1)
  ELSE IF x.minor # y.minor THEN (IF x.minor < y.minor THEN -1 ELSE 1)
  ELSE IF x.patch # y.patch THEN (IF x.patch < y.patch THEN -1 ELSE 1)
  ELSE 0

\* the loop of comparePre from identifier i on
RECURSIVE comparePreFrom(_, _, _)
comparePreFrom(p, q, i) ==
  IF i > Len(p) /\ i > Len(q) THEN 0
  ELSE IF i > Len(q) THEN 1
  ELSE IF i > Len(p) THEN -1
  ELSE IF p[i] = q[i] THEN comparePreFrom(p, q, i + 1)
  ELSE compareIdentifiers(p[i], q[i])

comparePre(x, y) ==
  IF x.prerelease # <<>> /\ y.prerelease = <<>> THEN -1
  ELSE IF x.prerelease = <<>> /\ y.prerelease # <<>> THEN 1
  ELSE IF x.prerelease = <<>> /\ y.prerelease = <<>> THEN 0
  ELSE comparePreFrom(x.prerelease, y.prerelease, 1)

SemVerCompare(x, y) ==
  IF compareMain(x, y) # 0 THEN compareMain(x, y) ELSE comparePre(x, y)

\* semver.compare of two parsed versions: what it returns, or that it threw
CompareParsed(x, y) ==
  IF x = None \/ y = None THEN [threw |-> TRUE, value |-> None]
  ELSE [threw |-> FALSE, value |-> Some(SemVerCompare(x[1], y[1]))]

\* Version.compare: what it returns, or that it threw
VersionCompare(this, other) ==
  CompareParsed(SemVerNew(VersionToString(this)), SemVerNew(VersionToString(other)))

(***************************************************************************)
(* VersionFormat: the Ruby dialect                                         *)
(***************************************************************************)
\* mutant: the prerelease is recognised after '-' only, as in the SemVer pattern
RubyMatch_HyphenOnly(s) ==
  LET i == FirstTriple(s)
  IN  IF i = 0 THEN None
      ELSE
        LET t == TripleAt(s, i)[1]
            c == t.c
            hasPre == c + 1 <= Len(s) /\ s[c] = "-"
        IN  Some([major |-> SubSeq(s, i, t.a - 1),
                  minor |-> SubSeq(s, t.a + 1, t.b - 1),
                  patch |-> SubSeq(s, t.b + 1, c - 1),
                  preRelease |-> IF hasPre THEN Some(From(s, c + 1)) ELSE None,
                  start |-> i,
                  end |-> IF hasPre THEN Len(s) + 1 ELSE c])

\* mutant: the prerelease stops at the first '+', as in the SemVer pattern
RubyMatch_StopsAtPlus(s) ==
  LET i == FirstTriple(s)
  IN  IF i = 0 THEN None
      ELSE
        LET t == TripleAt(s, i)[1]
            c == t.c
            e == RunEnd(s, c + 1, Alphabet \ {"+"})
            hasPre == c + 1 <= Len(s) /\ s[c] \in {".", "-"} /\ e > c + 1
        IN  Some([major |-> SubSeq(s, i, t.a - 1),
                  minor |-> SubSeq(s, t.a + 1, t.b - 1),
                  patch |-> SubSeq(s, t.b + 1, c - 1),
                  preRelease |-> IF hasPre THEN Some(SubSeq(s, c + 1, e - 1)) ELSE None,
                  start |-> i,
                  end |-> IF hasPre THEN e ELSE c])

\* the named groups of a match that starts at i and has the triple t
RubyGroups(s, i, t) ==
  Some([major |-> SubSeq(s, i, t.a - 1),
        minor |-> SubSeq(s, t.a + 1, t.b - 1),
        patch |-> SubSeq(s, t.b + 1, t.c - 1),
        preRelease |-> IF t.c + 1 <= Len(s) /\ s[t.c] \in {".", "-"}
                       THEN Some(From(s, t.c + 1)) ELSE None,
        start |-> i,
        end |-> IF t.c + 1 <= Len(s) /\ s[t.c] \in {".", "-"}
                THEN Len(s) + 1 ELSE t.c])

RubyMatchAt(s, i) ==
  IF i = 0 THEN None ELSE RubyGroups(s, i, TripleAt(s, i)[1])

\* RubyVersionFormat.REGEX applied by String.match: the named groups
RubyMatch(s) == RubyMatchAt(s, FirstTriple(s))

\* the Version built from the groups of a match
RubyVersion(match) ==
  IF match = None THEN None
  ELSE Some(Version(StrToInt(match[1].major), StrToInt(match[1].minor),
                    StrToInt(match[1].patch), match[1].preRelease, None))

RubyParse(versionString) == RubyVersion(RubyMatch(versionString))

\* mutant: the build metadata is rendered as the SemVer dialect renders it
RubyFormat_WithBuild(version) ==
  LET preReleasePart ==
        IF Truthy(version.preRelease) THEN <<".">> \o version.preRelease[1] ELSE <<>>
      buildPart == IF Truthy(version.build) THEN <<"+">> \o version.build[1] ELSE <<>>
  IN  IntToStr(version.major) \o <<".">> \o IntToStr(version.minor) \o <<".">>
        \o IntToStr(version.patch) \o preReleasePart \o buildPart

RubyFormat(version) ==
  LET preReleasePart ==
        IF Truthy(version.preRelease) THEN <<".">> \o version.preRelease[1] ELSE <<>>
  IN  IntToStr(version.major) \o <<".">> \o IntToStr(version.minor) \o <<".">>
        \o IntToStr(version.patch) \o preReleasePart

\* the VersionFormat instances a caller can inject; NoFormat is an omitted one
SEMVER == "semver"

RUBY == "ruby"

NoFormat == "none"

FormatParse(f, s) == IF f = SEMVER THEN SemverParse(s) ELSE RubyParse(s)

FormatFormat(f, v) == IF f = SEMVER THEN SemverFormat(v) ELSE RubyFormat(v)

(***************************************************************************)
(* BranchName                                                              *)
(***************************************************************************)
RELEASE_PLEASE == <<"r","e","l","e","a","s","e","-","p","l","e","a","s","e">>

AUTORELEASE == "AutoreleaseBranchName"

COMPONENT == "ComponentBranchName"

GROUP == "GroupBranchName"

DEFAULT == "DefaultBranchName"

V12_COMPONENT == "V12ComponentBranchName"

V12_DEFAULT == "V12DefaultBranchName"

\* mutant: the classes in the order Autorelease, V12 default, V12 component,
\* Default, Component, Group
getAllResourceNames_DefaultFirst ==
  <<AUTORELEASE, V12_DEFAULT, V12_COMPONENT, DEFAULT, COMPONENT, GROUP>>

getAllResourceNames ==
  <<AUTORELEASE, COMPONENT, GROUP, DEFAULT, V12_COMPONENT, V12_DEFAULT>>

\* a BranchName object: the class that built it and its four fields
BranchName(shape, component, targetBranch, version, versionFormat) ==
  [shape |-> shape, component |-> component, targetBranch |-> targetBranch,
   version |-> version, versionFormat |-> versionFormat]

\* the literal 'release' that opens AUTORELEASE_PATTERN
RELEASE == <<"r","e","l","e","a","s","e">>

DASH_V == <<"-","v">>

\* the class [\w-.] of the component group
ComponentClass == Word \cup {"-", "."}

\* ends e of a component that starts at c0 and is followed by -v and a digit
AutoreleaseEnds(s, c0) ==
  {e \in c0..RunEnd(s, c0, ComponentClass) :
     /\ LitAt(s, e, DASH_V)
     /\ e + 2 <= Len(s)
     /\ s[e + 2] \in Digit}

\* the groups of a match whose component starts at c0 and ends before e
AutoreleaseGroups(s, c0, e) ==
  Some([component |-> IF e > c0 THEN Some(SubSeq(s, c0, e - 1)) ELSE None,
        version |-> From(s, e + 2)])

\* the match without the optional dash: the longest component that fits
AutoreleaseNoDash(s, n, ends) ==
  IF ends = {} THEN None ELSE AutoreleaseGroups(s, n, Greatest(ends))

\* the greedy -? is tried with the dash first, and the greedy component is
\* tried longest first
AutoreleasePick(s, n, withDash) ==
  IF withDash # {} THEN AutoreleaseGroups(s, n + 1, Greatest(withDash))
  ELSE AutoreleaseNoDash(s, n, AutoreleaseEnds(s, n))

\* the match of the pattern after the literal 'release', from position n on
AutoreleaseAfter(s, n) ==
  AutoreleasePick(s, n,
                  IF n <= Len(s) /\ s[n] = "-" THEN AutoreleaseEnds(s, n + 1) ELSE {})

\* AUTORELEASE_PATTERN applied by String.match: the named groups, or None
AutoreleaseMatch(s) ==
  IF ~StartsWith(s, RELEASE) THEN None ELSE AutoreleaseAfter(s, Len(RELEASE) + 1)

RELEASE_PLEASE_BRANCH_PREFIX == RELEASE_PLEASE \o <<"-","-","b","r","a","n","c","h","e","s">>

\* mutant: the reserved prefix is not excluded
AutoreleaseMatches_NoPrefixCheck(branchName) == AutoreleaseMatch(branchName) # None

AutoreleaseMatches(branchName) ==
  IF StartsWith(branchName, RELEASE_PLEASE_BRANCH_PREFIX) THEN FALSE
  ELSE AutoreleaseMatch(branchName) # None

\* the fields the constructor sets from the match
AutoreleaseFields(match, versionFormat) ==
  IF match # None /\ versionFormat # NoFormat
  THEN BranchName(AUTORELEASE, match[1].component, None,
                  FormatParse(versionFormat, match[1].version), versionFormat)
  ELSE BranchName(AUTORELEASE, None, None, None, versionFormat)

AutoreleaseNew(branchName, versionFormat) ==
  AutoreleaseFields(AutoreleaseMatch(branchName), versionFormat)

AutoreleaseToString(this) ==
  LET versionString ==
        IF this.version # None /\ this.versionFormat # NoFormat
        THEN Some(FormatFormat(this.versionFormat, this.version[1]))
        ELSE IF this.version # None THEN Some(VersionToString(this.version[1]))
        ELSE None
  IN  IF Truthy(this.component)
      THEN RELEASE \o <<"-">> \o this.component[1] \o DASH_V \o Render(versionString)
      ELSE RELEASE \o DASH_V \o Render(versionString)

\* the position of the last occurrence of delim in s that leaves at least one
\* character before it (from position start on) and one after it, or 0: where
\* (.+)delim(.+)$ splits s after a prefix ending at start - 1
SplitLast(s, start, delim) ==
  Greatest({k \in (start + 1)..Len(s) :
              LitAt(s, k, delim) /\ k + Len(delim) <= Len(s)})

V12_PREFIX == RELEASE_PLEASE \o <<"/","b","r","a","n","c","h","e","s","/">>

V12_COMPONENTS == <<"/","c","o","m","p","o","n","e","n","t","s","/">>

NotSlash == Alphabet \ {"/"}

\* V12_DEFAULT_PATTERN: the branch group, or None
V12DefaultMatch(s) ==
  LET b == Len(V12_PREFIX) + 1
  IN  IF StartsWith(s, V12_PREFIX) /\ b <= Len(s) /\ RunEnd(s, b, NotSlash) = Len(s) + 1
      THEN Some([branch |-> From(s, b)])
      ELSE None

V12ComponentGroups(s, b, e) ==
  IF /\ StartsWith(s, V12_PREFIX)
     /\ e > b
     /\ LitAt(s, e, V12_COMPONENTS)
     /\ e + Len(V12_COMPONENTS) <= Len(s)
  THEN Some([branch |-> SubSeq(s, b, e - 1),
             component |-> From(s, e + Len(V12_COMPONENTS))])
  ELSE None

\* V12_COMPONENT_PATTERN: the branch and component groups, or None
V12ComponentMatch(s) ==
  V12ComponentGroups(s, Len(V12_PREFIX) + 1, RunEnd(s, Len(V12_PREFIX) + 1, NotSlash))

BRANCHES_PREFIX == RELEASE_PLEASE \o <<"-","-","b","r","a","n","c","h","e","s","-","-">>

COMPONENTS_DELIM == <<"-","-","c","o","m","p","o","n","e","n","t","s","-","-">>

GROUPS_DELIM == <<"-","-","g","r","o","u","p","s","-","-">>

\* DEFAULT_PATTERN: the branch group, or None
DefaultMatch(s) ==
  LET b == Len(BRANCHES_PREFIX) + 1
  IN  IF StartsWith(s, BRANCHES_PREFIX) /\ b <= Len(s)
      THEN Some([branch |-> From(s, b)])
      ELSE None

DelimitedGroups(s, delim, b, k) ==
  IF StartsWith(s, BRANCHES_PREFIX) /\ k # 0
  THEN Some([branch |-> SubSeq(s, b, k - 1), rest |-> From(s, k + Len(delim))])
  ELSE None

\* COMPONENT_PATTERN and GROUP_PATTERN: the branch group and the group after
\* the delimiter, or None
DelimitedMatch(s, delim) ==
  DelimitedGroups(s, delim, Len(BRANCHES_PREFIX) + 1,
                  SplitLast(s, Len(BRANCHES_PREFIX) + 1, delim))

ComponentMatch(s) == DelimitedMatch(s, COMPONENTS_DELIM)

GroupMatch(s) == DelimitedMatch(s, GROUPS_DELIM)

\* the static matches of each class
Matches(clazz, branchName) ==
  CASE clazz = AUTORELEASE -> AutoreleaseMatches(branchName)
    [] clazz = COMPONENT -> ComponentMatch(branchName) # None
    [] clazz = GROUP -> GroupMatch(branchName) # None
    [] clazz = DEFAULT -> DefaultMatch(branchName) # None
    [] clazz = V12_COMPONENT -> V12ComponentMatch(branchName) # None
    [] clazz = V12_DEFAULT -> V12DefaultMatch(branchName) # None

\* the match of the pattern of a target-branch class
TargetBranchMatch(clazz, branchName) ==
  CASE clazz = COMPONENT -> ComponentMatch(branchName)
    [] clazz = GROUP -> GroupMatch(branchName)
    [] clazz = DEFAULT -> DefaultMatch(branchName)
    [] clazz = V12_COMPONENT -> V12ComponentMatch(branchName)
    [] clazz = V12_DEFAULT -> V12DefaultMatch(branchName)

\* the fields the constructor sets from the match m
TargetBranchFields(clazz, m) ==
  IF m = None THEN BranchName(clazz, None, None, None, NoFormat)
  ELSE BranchName(clazz,
                  CASE clazz \in {COMPONENT, GROUP} -> Some(m[1].rest)
                    [] clazz = V12_COMPONENT -> Some(m[1].component)
                    [] OTHER -> None,
                  Some(m[1].branch), None, NoFormat)

\* the constructors of the five target-branch classes
TargetBranchNew(clazz, branchName) ==
  TargetBranchFields(clazz, TargetBranchMatch(clazz, branchName))

New(clazz, branchName, versionFormat) ==
  IF clazz = AUTORELEASE THEN AutoreleaseNew(branchName, versionFormat)
  ELSE TargetBranchNew(clazz, branchName)

BranchNameToString(this) ==
  CASE this.shape = AUTORELEASE -> AutoreleaseToString(this)
    [] this.shape = V12_DEFAULT ->
         V12_PREFIX \o Render(this.targetBranch)
    [] this.shape = V12_COMPONENT ->
         V12_PREFIX \o Render(this.targetBranch) \o V12_COMPONENTS \o Render(this.component)
    [] this.shape = DEFAULT ->
         BRANCHES_PREFIX \o Render(this.targetBranch)
    [] this.shape = COMPONENT ->
         BRANCHES_PREFIX \o Render(this.targetBranch) \o COMPONENTS_DELIM
           \o Render(this.component)
    [] this.shape = GROUP ->
         BRANCHES_PREFIX \o Render(this.targetBranch) \o GROUPS_DELIM
           \o Render(this.component)

\* Array.prototype.find over the classes: the index of the first class of
\* names whose matches accepts branchName, or 0
FindClass(names, branchName) ==
  Least({i \in 1..Len(names) : Matches(names[i], branchName)})

\* mutant: parse without the check that an Autorelease name has a version
CheckedParsed_NoVersionCheck(branchNameClass, parsed) == Some(parsed)

\* for an AutoreleaseBranchName the version must be valid
CheckedParsed(branchNameClass, parsed) ==
  IF branchNameClass = AUTORELEASE /\ parsed.version = None THEN None
  ELSE Some(parsed)

\* the rest of parse once find has returned the class
ParseAs(branchNameClass, branchName, versionFormat) ==
  CheckedParsed(branchNameClass, New(branchNameClass, branchName, versionFormat))

ParseFound(i, branchName, versionFormat) ==
  IF i = 0 THEN None
  ELSE ParseAs(getAllResourceNames[i], branchName, versionFormat)

BranchNameParse(branchName, versionFormat) ==
  ParseFound(FindClass(getAllResourceNames, branchName), branchName, versionFormat)

\* a VersionFormat whose parse throws: the interface lets a caller inject any
\* implementation
THROWING == "throwing"

\* new branchNameClass(branchName, versionFormat) throws: only the Autorelease
\* constructor calls versionFormat.parse
NewThrows(branchNameClass, branchName, versionFormat) ==
  /\ branchNameClass = AUTORELEASE
  /\ AutoreleaseMatch(branchName) # None
  /\ versionFormat = THROWING

\* the arguments of logger.warn in the catch clause
WarnMessage(branchName) == <<"Error parsing branch name: ", branchName>>

\* mutant: a warning is also logged when parse returns no value without an
\* exception
ParseCaughtAs_WarnOnNoValue(branchNameClass, branchName, versionFormat) ==
  IF \/ NewThrows(branchNameClass, branchName, versionFormat)
     \/ ParseAs(branchNameClass, branchName, versionFormat) = None
  THEN [value |-> None, warnings |-> <<WarnMessage(branchName)>>]
  ELSE [value |-> ParseAs(branchNameClass, branchName, versionFormat),
        warnings |-> <<>>]

\* try {...} catch (e) {logger.warn(...); return undefined} around the
\* constructor call: what parse returns and what it has logged
ParseCaughtAs(branchNameClass, branchName, versionFormat) ==
  IF NewThrows(branchNameClass, branchName, versionFormat)
  THEN [value |-> None, warnings |-> <<WarnMessage(branchName)>>]
  ELSE [value |-> ParseAs(branchNameClass, branchName, versionFormat),
        warnings |-> <<>>]

ParseCaughtFound(i, branchName, versionFormat) ==
  IF i = 0 THEN [value |-> None, warnings |-> <<>>]
  ELSE ParseCaughtAs(getAllResourceNames[i], branchName, versionFormat)

\* BranchName.parse with its logger: what it returns and what it has logged
BranchNameParseLogged(branchName, versionFormat) ==
  ParseCaughtFound(FindClass(getAllResourceNames, branchName), branchName,
                   versionFormat)

\* mutant: the structural check made by a full parse with the SemVer format
IsReleasePleaseBranch_ViaParse(branchName) ==
  BranchNameParse(branchName, SEMVER) # None

\* Array.prototype.some over the classes
IsReleasePleaseBranch(branchName) ==
  \E i \in 1..Len(getAllResourceNames) : Matches(getAllResourceNames[i], branchName)

OfComponentVersion(branchPrefix, version, versionFormat) ==
  LET versionString == FormatFormat(versionFormat, version)
  IN  AutoreleaseNew(RELEASE \o <<"-">> \o branchPrefix \o DASH_V \o versionString,
                     versionFormat)

OfVersion(version, versionFormat) ==
  LET versionString == FormatFormat(versionFormat, version)
  IN  AutoreleaseNew(RELEASE \o DASH_V \o versionString, versionFormat)

\* String.prototype.replace(/[^\w\d]/g, '-')
ReplaceDisallowed(s) == [i \in 1..Len(s) |-> IF s[i] \in Word \cup Digit THEN s[i] ELSE "-"]

\* String.prototype.replace(/-+/g, '-')
RECURSIVE CollapseDashes(_)
CollapseDashes(s) ==
  IF s = <<>> THEN <<>>
  ELSE IF Len(s) > 1 /\ s[Len(s) - 1] = "-" /\ s[Len(s)] = "-"
       THEN CollapseDashes(SubSeq(s, 1, Len(s) - 1))
       ELSE Append(CollapseDashes(SubSeq(s, 1, Len(s) - 1)), s[Len(s)])

\* mutant: the runs of '-' are kept
safeBranchName_NoCollapse(branchName) == ReplaceDisallowed(branchName)

safeBranchName(branchName) == CollapseDashes(ReplaceDisallowed(branchName))

OfTargetBranch(targetBranch) ==
  TargetBranchNew(DEFAULT, BRANCHES_PREFIX \o targetBranch)

OfComponentTargetBranch(component, targetBranch) ==
  TargetBranchNew(COMPONENT,
                  BRANCHES_PREFIX \o targetBranch \o COMPONENTS_DELIM \o component)

OfGroupTargetBranch(group, targetBranch) ==
  TargetBranchNew(GROUP,
                  BRANCHES_PREFIX \o targetBranch \o GROUPS_DELIM \o safeBranchName(group))

(***************************************************************************)
(* Version.parse: the legacy entry point, which throws                     *)
(***************************************************************************)
\* the patterns a caller passes as versionRegex: the pattern of version.ts and
\* the pattern of the Ruby format
VERSION_REGEX == "VERSION_REGEX"

RUBY_REGEX == "RubyVersionFormat.REGEX"

DEPRECATION_WARNING == "Version.parse versionRegex parameter is deprecated."

\* the Version built from the groups of versionString.match(versionRegex)
VersionOfRegex(versionRegex, versionString) ==
  IF versionRegex = VERSION_REGEX THEN SemverVersion(SemverMatch(versionString))
  ELSE RubyVersion(RubyMatch(versionString))

\* the Version returned or the Error thrown, and what console.warn has printed
VersionParseResult(version, versionString, warnings) ==
  IF version = None
  THEN [threw |-> TRUE,
        error |-> Some(<<"unable to parse version string: ", versionString>>),
        version |-> None, warnings |-> warnings]
  ELSE [threw |-> FALSE, error |-> None, version |-> version, warnings |-> warnings]

\* mutant: the deprecation warning is printed only when parsing fails
VersionParse_WarnsOnFailure(versionString, versionRegex) ==
  IF versionRegex # None
  THEN VersionParseResult(VersionOfRegex(versionRegex[1], versionString), versionString,
                          IF VersionOfRegex(versionRegex[1], versionString) = None
                          THEN <<DEPRECATION_WARNING>> ELSE <<>>)
  ELSE VersionParseResult(SemverParse(versionString), versionString, <<>>)

VersionParse(versionString, versionRegex) ==
  IF versionRegex # None
  THEN VersionParseResult(VersionOfRegex(versionRegex[1], versionString), versionString,
                          <<DEPRECATION_WARNING>>)
  ELSE VersionParseResult(SemverParse(versionString), versionString, <<>>)

(***************************************************************************)
(* TagName                                                                 *)
(***************************************************************************)
\* a VersionFormat whose parse accepts no string: the interface lets a caller
\* inject any implementation
REJECTING == "rejecting"

InjectedParse(f, s) == IF f = REJECTING THEN None ELSE FormatParse(f, s)

\* the class [a-zA-Z0-9]
AlphaNumeric == Letter \cup Digit

DEFAULT_SEPARATOR == <<"-">>

\* (?<v>v)?(?<version>\d+\.\d+\.\d+.*)$ matches from position q on
TagVersionAt(s, q) ==
  \/ TripleAt(s, q) # None
  \/ q <= Len(s) /\ s[q] = "v" /\ TripleAt(s, q + 1) # None

\* the named groups of a match whose separator is at position p, or whose
\* optional prefix group takes no part when p is 0
TagGroups(s, p) ==
  [component |-> IF p = 0 THEN None ELSE Some(SubSeq(s, 1, p - 1)),
   separator |-> IF p = 0 THEN None ELSE Some(<<s[p]>>),
   v |-> IF s[p + 1] = "v" THEN Some(<<"v">>) ELSE None,
   version |-> IF s[p + 1] = "v" THEN From(s, p + 2) ELSE From(s, p + 1)]

TagMatchAt(s, p) == IF TagVersionAt(s, p + 1) THEN Some(TagGroups(s, p)) ELSE None

\* TAG_PATTERN applied by String.match: the greedy component takes the longest
\* prefix that lets a separator and a version follow
TagMatch(s) ==
  TagMatchAt(s, Greatest({p \in 1..Len(s) :
                            s[p] \notin AlphaNumeric /\ TagVersionAt(s, p + 1)}))

\* new TagName(version, component, separator, includeV): an omitted or
\* undefined separator is the default one
TagName(version, component, separator, includeV) ==
  [version |-> version,
   component |-> component,
   separator |-> IF separator = None THEN DEFAULT_SEPARATOR ELSE separator[1],
   includeV |-> includeV]

ExtractComponentOf(match) == IF match = None THEN None ELSE match[1].component

ExtractComponent(tagName) == ExtractComponentOf(TagMatch(tagName))

\* the rest of parse once the version tail is decoded
TagNameOf(groups, version) ==
  IF version = None THEN None
  ELSE Some(TagName(version[1], groups.component, groups.separator, groups.v # None))

TagNameParseMatch(match, versionFormat) ==
  IF match = None THEN None
  ELSE TagNameOf(match[1], InjectedParse(versionFormat, match[1].version))

\* mutant: the version tail is always decoded by the SemVer format
TagNameParse_AlwaysSemver(tagName, versionFormat) ==
  TagNameParseMatch(TagMatch(tagName), SEMVER)

TagNameParse(tagName, versionFormat) ==
  TagNameParseMatch(TagMatch(tagName), versionFormat)

TagNameToString(this) ==
  IF Truthy(this.component)
  THEN this.component[1] \o this.separator
         \o (IF this.includeV THEN <<"v">> ELSE <<>>) \o VersionToString(this.version)
  ELSE (IF this.includeV THEN <<"v">> ELSE <<>>) \o VersionToString(this.version)

(***************************************************************************)
(* The inputs of the calls.  Strings are drawn from fragments that make    *)
(* the shapes overlap; numbers and free text are bounded.                  *)
(***************************************************************************)
\* version numbers run over 0..MaxNum and the two-digit 10
MaxNum == 2

\* the longest free prerelease text of a Version
MaxPreLen == 3

\* the longest free text that follows major.minor.patch in a parsed string
MaxTailLen == 3

\* all strings over the characters C of length at most n
Strs(C, n) == UNION {[1..k -> C] : k \in 0..n}

Numbers == (0..MaxNum) \cup {10}

Formats == {SEMVER, RUBY}

PreChars == {"a", "1", ".", "-", "v", "+"}

PreReleases == {None} \cup {Some(s) : s \in Strs(PreChars, MaxPreLen)}

Builds == {None, Some(<<>>), Some(<<"b">>)}

\* the Versions handed to format and to the builders
Versions ==
  {Version(major, 2, patch, preRelease, build) :
     major \in Numbers, patch \in {3}, preRelease \in PreReleases, build \in Builds}

BuilderPreChars == {"a", "1", ".", "-", "v"}

\* the Versions handed to the branch builders: a prerelease or build, when
\* present, is not empty, and a prerelease holds no '+'
BuilderVersions ==
  {Version(major, 2, 3, preRelease, build) :
     major \in {0, 10},
     preRelease \in {None} \cup {Some(s) : s \in Strs(BuilderPreChars, MaxPreLen) \ {<<>>}},
     build \in {None, Some(<<"b">>)}}

TailChars == {"a", "1", ".", "-", "+"}

Leads == {<<>>,
         <<"v">>,
         <<"x","-">>}

Cores == {<<"1",".","2",".","3">>,
         <<"0",".","1","0",".","0">>,
         <<"0","1",".","2",".","3">>,
         <<"1",".","2">>,
         <<"1",".",".","3">>,
         <<"a",".","b",".","c">>}

NOT_A_VERSION == <<"n","o","t","-","a","-","v","e","r","s","i","o","n">>

RC_1_BUILD_123 == <<"r","c",".","1","+","b","u","i","l","d",".","1","2","3">>

\* the strings of the test suites
ExampleInputs ==
  {NOT_A_VERSION,
   <<"1",".","2",".","3",".">> \o RC_1_BUILD_123,
   <<"1",".","2",".","3","-","a","l","p","h","a",".","1">>,
   <<"1",".","2",".","3","+","b","u","i","l","d",".","1","2","3">>,
   <<"1",".","2",".","3","-","b","e","t","a",".","2","+","b","u","i","l","d",".","4","5","6">>}

\* the strings handed to VersionFormat.parse
ParseInputs ==
  {lead \o core \o tail : lead \in Leads, core \in Cores,
                          tail \in Strs(TailChars, MaxTailLen)}
    \cup ExampleInputs

ComparedPreReleases ==
  {None} \cup {Some(s) : s \in {<<"a">>,
                          <<"1">>,
                          <<"2">>,
                          <<"1","0">>,
                          <<"a",".","1">>,
                          <<"a",".","b">>,
                          <<"a",".","2">>,
                          <<"a",".","1","0">>,
                          <<"a","-">>,
                          <<"r","c">>,
                          <<"r","c","+","x">>,
                          <<"r","c","+","y">>,
                          <<"0","1">>}}

\* the Versions handed to Version.compare
ComparedVersions ==
  {Version(1, minor, patch, preRelease, build) :
     minor \in {0, MaxNum}, patch \in {2, 10},
     preRelease \in ComparedPreReleases, build \in {None, Some(<<"b">>)}}

BranchHeads == {<<>>,
               <<"m","a","i","n">>,
               <<"r","e","l","e","a","s","e">>,
               <<"r","e","l","e","a","s","e","-">>,
               <<"r","e","l","e","a","s","e","-","p","l","e","a","s","e">>,
               <<"r","e","l","e","a","s","e","-","p","l","e","a","s","e","-","-","b","r","a","n","c","h","e","s","-","-">>,
               <<"r","e","l","e","a","s","e","-","p","l","e","a","s","e","/","b","r","a","n","c","h","e","s","/">>,
               <<"r","e","l","e","a","s","e","-","p","l","e","a","s","e","-","-","b","r","a","n","c","h","e","s">>}

BranchBodies == {<<>>,
                <<"f","o","o">>,
                <<"a",".","b">>,
                <<"m","-","-","c","o","m","p","o","n","e","n","t","s","-","-","c">>,
                <<"m","-","-","g","r","o","u","p","s","-","-","g">>,
                <<"m","/","c","o","m","p","o","n","e","n","t","s","/","c">>,
                <<"m","-","-","c","o","m","p","o","n","e","n","t","s","-","-","c","-","-","g","r","o","u","p","s","-","-","g">>,
                <<"m","-","-","g","r","o","u","p","s","-","-","g","-","-","c","o","m","p","o","n","e","n","t","s","-","-","c">>,
                <<"m","/","n">>}

BranchTails == {<<>>,
               <<"-","v","1",".","2",".","3">>,
               <<"-","v","1">>,
               <<"-","v","1",".","0",".","0">>,
               <<"v","1",".","2",".","3">>,
               <<"-","v","1",".","2",".","3","-","r","c",".","1">>,
               <<"-","v","1",".","2",".","3",".","r","c">>,
               <<"-","v","1",".","0",".","0","-","r","c","-","v","2">>,
               <<"-","v","x">>,
               <<"-","v","1",".","2",".","3","+","b">>,
               <<"-","v","0","1",".","2",".","3">>}

RELEASE_V_1_2_3_ALPHA ==
  <<"r","e","l","e","a","s","e","-","v","1",".","2",".","3",".","a","l","p","h","a">>

BRANCHES_RELEASE_V_1_0_0 ==
  <<"r","e","l","e","a","s","e","-","p","l","e","a","s","e","-","-","b","r","a","n","c","h","e","s","-","-",
    "r","e","l","e","a","s","e","-","v","1",".","0",".","0">>

\* the branch names of the test suites and of the documentation
ExampleBranches == {RELEASE_V_1_2_3_ALPHA, BRANCHES_RELEASE_V_1_0_0}

\* the strings handed to BranchName.parse and isReleasePleaseBranch
BranchInputs ==
  {head \o body \o tail : head \in BranchHeads, body \in BranchBodies,
                          tail \in BranchTails}
    \cup ExampleBranches

MAIN_BRANCH == <<"m","a","i","n">>

BranchPrefixes == {<<"f","o","o">>,
                  <<"a",".","b">>,
                  <<"l","i","b","-","v","2">>}

\* the target branches handed to the builders
TargetBranches == (BranchBodies \ {<<>>}) \cup {MAIN_BRANCH}

\* the components handed to the builders
Components == BranchPrefixes \cup {<<"c","-","-","g","r","o","u","p","s","-","-","g">>}

\* the longest free text of a group name
MaxGroupLen == 3

GroupChars == {"a", "_", "-", "/", "@"}

A_B_C == <<"a","/","b","/","/","c">>

\* the group names handed to the builder
Groups == Strs(GroupChars, MaxGroupLen) \cup {A_B_C}

TagPreReleases ==
  {None} \cup {Some(s) : s \in {<<"a","l","p","h","a",".","1">>,
                                <<"r","c">>,
                                <<"0">>,
                                <<"1",".","2",".","3">>,
                                <<"1",".","2",".","3",".","x">>}}

TagBuilds == {None, Some(<<"b">>), Some(<<"0",".","0",".","0","1">>)}

\* the Versions of the tags
TagVersions ==
  {Version(1, minor, 3, preRelease, build) :
     minor \in {0, MaxNum}, preRelease \in TagPreReleases, build \in TagBuilds}

TagComponents ==
  {None} \cup {Some(s) : s \in {<<"r","e","l","e","a","s","e">>,
                                <<"l","i","b","2">>,
                                <<"a",".","b">>,
                                <<"p","k","g","-","v","2">>}}

TagSeparators == {<<"-">>, <<"/">>, <<"@">>, <<"_">>}

\* strings that are not tags, or whose prefix is not a component and a separator
OtherTags == {<<"m","a","i","n">>,
              <<"v","1",".","2">>,
              <<"-","v","1",".","2",".","3">>,
              <<"r","e","l","e","a","s","e","v","1",".","2",".","3">>,
              <<"r","e","l","e","a","s","e","-","v","1",".","2">>,
              <<"r","e","l","e","a","s","e","-","v","0","1",".","2",".","3">>,
              <<"v","1",".","2",".","3",".","r","c",".","1">>,
              <<"v","1",".","2",".","3","+">>,
              <<"r","e","l","e","a","s","e","-","x","1",".","2",".","3">>}

RELEASE_V_1_2_3_ALPHA_1 ==
  <<"r","e","l","e","a","s","e","-","v","1",".","2",".","3","-","a","l","p","h","a",".","1">>

\* the text of a tag with the given parts
TagText(component, separator, includeV, versionText) ==
  (IF component = None THEN <<>> ELSE component[1] \o separator)
    \o (IF includeV THEN <<"v">> ELSE <<>>) \o versionText

\* the strings handed to TagName.parse and extractComponent
TagInputs ==
  {TagText(component, separator, includeV, SemverFormat(version)) :
     component \in TagComponents, separator \in TagSeparators,
     includeV \in BOOLEAN, version \in TagVersions}
    \cup OtherTags \cup {RELEASE_V_1_2_3_ALPHA_1}

\* the Versions whose toString is called, with what produced each of them
VersionSources ==
  {[producer |-> "new Version", source |-> <<>>, version |-> v] : v \in Versions}
    \cup {[producer |-> "RubyVersionFormat.parse", source |-> s,
           version |-> RubyParse(s)[1]] :
            s \in {x \in ParseInputs : RubyParse(x) # None}}
    \cup {[producer |-> "BranchName.parse", source |-> b,
           version |-> BranchNameParse(b, RUBY)[1].version[1]] :
            b \in {x \in BranchInputs : AutoreleaseMatches(x)
                                          /\ BranchNameParse(x, RUBY) # None}}

(***************************************************************************)
(* The calls.  pc is "idle" between calls and names the call that has      *)
(* returned otherwise; arg holds its arguments and ret what it returned.   *)
(***************************************************************************)
NoValue == [none |-> TRUE]

Init ==
  /\ pc = "idle"
  /\ arg = NoValue
  /\ ret = NoValue

Return ==
  /\ pc # "idle"
  /\ pc' = "idle"
  /\ arg' = NoValue
  /\ ret' = NoValue

SemverParseCall ==
  /\ pc = "idle"
  /\ \E versionString \in ParseInputs :
       /\ arg' = [format |-> SEMVER, versionString |-> versionString]
       /\ ret' = [version |-> SemverParse(versionString)]
  /\ pc' = "VersionFormat.parse"

RubyParseCall ==
  /\ pc = "idle"
  /\ \E versionString \in ParseInputs :
       /\ arg' = [format |-> RUBY, versionString |-> versionString]
       /\ ret' = [version |-> RubyParse(versionString)]
  /\ pc' = "VersionFormat.parse"

SemverFormatCall ==
  /\ pc = "idle"
  /\ \E version \in Versions :
       /\ arg' = [format |-> SEMVER, version |-> version]
       /\ ret' = [text |-> SemverFormat(version)]
  /\ pc' = "VersionFormat.format"

RubyFormatCall ==
  /\ pc = "idle"
  /\ \E version \in Versions :
       /\ arg' = [format |-> RUBY, version |-> version]
       /\ ret' = [text |-> RubyFormat(version)]
  /\ pc' = "VersionFormat.format"

ParseCall ==
  /\ pc = "idle"
  /\ \E branchName \in BranchInputs, versionFormat \in Formats \cup {NoFormat} :
       /\ arg' = [branchName |-> branchName, versionFormat |-> versionFormat]
       /\ ret' = BranchNameParseLogged(branchName, versionFormat)
  /\ pc' = "BranchName.parse"

ParseWithThrowingFormatCall ==
  /\ pc = "idle"
  /\ \E branchName \in BranchInputs :
       /\ arg' = [branchName |-> branchName, versionFormat |-> THROWING]
       /\ ret' = BranchNameParseLogged(branchName, THROWING)
  /\ pc' = "BranchName.parse with a VersionFormat that throws"

IsReleasePleaseBranchCall ==
  /\ pc = "idle"
  /\ \E branchName \in BranchInputs :
       /\ arg' = [branchName |-> branchName]
       /\ ret' = [value |-> IsReleasePleaseBranch(branchName)]
  /\ pc' = "BranchName.isReleasePleaseBranch"

OfVersionCall ==
  /\ pc = "idle"
  /\ \E version \in BuilderVersions, versionFormat \in Formats :
       /\ arg' = [version |-> version, versionFormat |-> versionFormat]
       /\ ret' = [value |-> OfVersion(version, versionFormat)]
  /\ pc' = "BranchName.ofVersion"

OfComponentVersionCall ==
  /\ pc = "idle"
  /\ \E branchPrefix \in BranchPrefixes, version \in BuilderVersions, versionFormat \in Formats :
       /\ arg' = [branchPrefix |-> branchPrefix, version |-> version,
                  versionFormat |-> versionFormat]
       /\ ret' = [value |-> OfComponentVersion(branchPrefix, version, versionFormat)]
  /\ pc' = "BranchName.ofComponentVersion"

OfTargetBranchCall ==
  /\ pc = "idle"
  /\ \E targetBranch \in TargetBranches :
       /\ arg' = [targetBranch |-> targetBranch]
       /\ ret' = [value |-> OfTargetBranch(targetBranch)]
  /\ pc' = "BranchName.ofTargetBranch"

OfComponentTargetBranchCall ==
  /\ pc = "idle"
  /\ \E component \in Components, targetBranch \in TargetBranches :
       /\ arg' = [component |-> component, targetBranch |-> targetBranch]
       /\ ret' = [value |-> OfComponentTargetBranch(component, targetBranch)]
  /\ pc' = "BranchName.ofComponentTargetBranch"

OfGroupTargetBranchCall ==
  /\ pc = "idle"
  /\ \E group \in Groups, targetBranch \in TargetBranches :
       /\ arg' = [group |-> group, targetBranch |-> targetBranch]
       /\ ret' = [value |-> OfGroupTargetBranch(group, targetBranch)]
  /\ pc' = "BranchName.ofGroupTargetBranch"

TagParseCall ==
  /\ pc = "idle"
  /\ \E tagName \in TagInputs, versionFormat \in Formats \cup {REJECTING} :
       /\ arg' = [tagName |-> tagName, versionFormat |-> versionFormat]
       /\ ret' = [value |-> TagNameParse(tagName, versionFormat)]
  /\ pc' = "TagName.parse"

ExtractComponentCall ==
  /\ pc = "idle"
  /\ \E tagName \in TagInputs :
       /\ arg' = [tagName |-> tagName]
       /\ ret' = [value |-> ExtractComponent(tagName)]
  /\ pc' = "TagName.extractComponent"

TagToStringCall ==
  /\ pc = "idle"
  /\ \E version \in TagVersions, component \in TagComponents,
        separator \in {None} \cup {Some(x) : x \in TagSeparators},
        includeV \in BOOLEAN :
       /\ arg' = [this |-> TagName(version, component, separator, includeV)]
       /\ ret' = [text |-> TagNameToString(TagName(version, component, separator, includeV))]
  /\ pc' = "TagName.toString"

CompareCall ==
  /\ pc = "idle"
  /\ \E this \in ComparedVersions, other \in ComparedVersions :
       /\ arg' = [this |-> this, other |-> other]
       /\ ret' = VersionCompare(this, other)
  /\ pc' = "Version.compare"

ToStringCall ==
  /\ pc = "idle"
  /\ \E produced \in VersionSources :
       /\ arg' = produced
       /\ ret' = [text |-> VersionToString(produced.version)]
  /\ pc' = "Version.toString"

VersionParseCall ==
  /\ pc = "idle"
  /\ \E versionString \in ParseInputs,
        versionRegex \in {None, Some(VERSION_REGEX), Some(RUBY_REGEX)} :
       /\ arg' = [versionString |-> versionString, versionRegex |-> versionRegex]
       /\ ret' = VersionParse(versionString, versionRegex)
  /\ pc' = "Version.parse"

NextFormat ==
  \/ SemverParseCall
  \/ RubyParseCall
  \/ SemverFormatCall
  \/ RubyFormatCall
  \/ Return

NextBranch ==
  \/ ParseCall
  \/ ParseWithThrowingFormatCall
  \/ IsReleasePleaseBranchCall
  \/ OfVersionCall
  \/ OfComponentVersionCall
  \/ OfTargetBranchCall
  \/ OfComponentTargetBranchCall
  \/ OfGroupTargetBranchCall
  \/ Return

NextCompare ==
  \/ CompareCall
  \/ Return

NextTag ==
  \/ TagParseCall
  \/ ExtractComponentCall
  \/ TagToStringCall
  \/ Return

NextVersion ==
  \/ ToStringCall
  \/ VersionParseCall
  \/ Return

Next ==
  \/ NextFormat
  \/ NextBranch
  \/ NextCompare
  \/ NextVersion
  \/ NextTag

Spec == Init /\ [][Next]_vars

\* the calls of VersionFormat alone
SpecFormat == Init /\ [][NextFormat]_vars

\* the calls of Version.compare alone
SpecCompare == Init /\ [][NextCompare]_vars

\* the calls of BranchName alone
SpecBranch == Init /\ [][NextBranch]_vars

\* the calls of TagName alone
SpecTag == Init /\ [][NextTag]_vars

\* the calls of Version.toString and Version.parse alone
SpecVersion == Init /\ [][NextVersion]_vars

(***************************************************************************)
(* Properties of BranchName                                                *)
(***************************************************************************)
Shapes == {AUTORELEASE, COMPONENT, GROUP, DEFAULT, V12_COMPONENT, V12_DEFAULT}

\* the fields a returned value has when shape decoded branchName
DecodedBy(value, shape, branchName) ==
  /\ value.shape = shape
  /\ CASE shape = AUTORELEASE ->
            /\ value.component = AutoreleaseMatch(branchName)[1].component
            /\ value.targetBranch = None
       [] shape = COMPONENT ->
            /\ value.targetBranch = Some(ComponentMatch(branchName)[1].branch)
            /\ value.component = Some(ComponentMatch(branchName)[1].rest)
            /\ value.version = None
       [] shape = GROUP ->
            /\ value.targetBranch = Some(GroupMatch(branchName)[1].branch)
            /\ value.component = Some(GroupMatch(branchName)[1].rest)
            /\ value.version = None
       [] shape = DEFAULT ->
            /\ value.targetBranch = Some(DefaultMatch(branchName)[1].branch)
            /\ value.component = None
            /\ value.version = None
       [] shape = V12_COMPONENT ->
            /\ value.targetBranch = Some(V12ComponentMatch(branchName)[1].branch)
            /\ value.component = Some(V12ComponentMatch(branchName)[1].component)
            /\ value.version = None
       [] shape = V12_DEFAULT ->
            /\ value.targetBranch = Some(V12DefaultMatch(branchName)[1].branch)
            /\ value.component = None
            /\ value.version = None

\* a returned value is decoded by the first shape of order that matches
FirstOfOrderWins(order) ==
  pc = "BranchName.parse" /\ ret.value # None =>
    \E i \in 1..Len(order) :
      /\ Matches(order[i], arg.branchName)
      /\ \A j \in 1..(i - 1) : ~Matches(order[j], arg.branchName)
      /\ DecodedBy(ret.value[1], order[i], arg.branchName)

\* C1 as stated: a value returned by BranchName.parse is decoded by the first
\* matching shape in the order Autorelease, V12 default, V12 component, Default,
\* Component, Group.
C1_SpecOrder ==
  FirstOfOrderWins(<<AUTORELEASE, V12_DEFAULT, V12_COMPONENT, DEFAULT, COMPONENT, GROUP>>)

\* C1 amended: a value returned by BranchName.parse is decoded by the first
\* matching shape in the order Autorelease, Component, Group, Default,
\* V12 component, V12 default.
C1_CodeOrder ==
  FirstOfOrderWins(<<AUTORELEASE, COMPONENT, GROUP, DEFAULT, V12_COMPONENT, V12_DEFAULT>>)

\* a name that Component, Group and Default all match was parsed as Component
C1_Witness ==
  /\ pc = "BranchName.parse"
  /\ ComponentMatch(arg.branchName) # None
  /\ GroupMatch(arg.branchName) # None
  /\ DefaultMatch(arg.branchName) # None
  /\ ret.value # None
  /\ ret.value[1].shape = COMPONENT

\* C2 as stated: ofVersion renders 'release-v' + format(v), ofComponentVersion
\* renders 'release-' + p + '-v' + format(v), and parsing the rendered string
\* with the same format returns the version parse(format(v)), which equals v
\* when v has no build metadata.
C2_Builders ==
  pc \in {"BranchName.ofVersion", "BranchName.ofComponentVersion"} =>
    LET f == arg.versionFormat
        formatted == FormatFormat(f, arg.version)
        text == IF pc = "BranchName.ofVersion"
                THEN RELEASE \o DASH_V \o formatted
                ELSE RELEASE \o <<"-">> \o arg.branchPrefix \o DASH_V \o formatted
        parsed == BranchNameParse(text, f)
    IN  /\ BranchNameToString(ret.value) = text
        /\ parsed # None
        /\ parsed[1].version = FormatParse(f, formatted)
        /\ arg.version.build = None => parsed[1].version = Some(arg.version)

\* C3: when some shape matches, BranchName.parse returns no value exactly when
\* Autorelease is the selected shape and either no VersionFormat is supplied or
\* the format does not parse the captured version tail.
C3_OnlyAutoreleaseFails ==
  pc = "BranchName.parse" /\ (\E shape \in Shapes : Matches(shape, arg.branchName)) =>
    (ret.value = None <=>
       /\ AutoreleaseMatches(arg.branchName)
       /\ \/ arg.versionFormat = NoFormat
          \/ FormatParse(arg.versionFormat,
                         AutoreleaseMatch(arg.branchName)[1].version) = None)

\* an Autorelease name whose tail the supplied format does not parse
C3_Witness ==
  /\ pc = "BranchName.parse"
  /\ AutoreleaseMatches(arg.branchName)
  /\ arg.versionFormat # NoFormat
  /\ FormatParse(arg.versionFormat, AutoreleaseMatch(arg.branchName)[1].version) = None
  /\ ret.value = None

RELEASE_V_1_0_0 == RELEASE \o <<"-","v","1",".","0",".","0">>

MAIN == <<"m","a","i","n">>

\* C4: isReleasePleaseBranch is true exactly when one of the six predicates
\* matches, so it is true whenever parse returns a value for some format; it is
\* true for 'release-v1.0.0' and false for 'main'.
C4_StructuralCheck ==
  /\ pc = "BranchName.isReleasePleaseBranch" =>
       /\ ret.value = (\E shape \in Shapes : Matches(shape, arg.branchName))
       /\ \A f \in Formats \cup {NoFormat} :
            BranchNameParse(arg.branchName, f) # None => ret.value
       /\ arg.branchName = RELEASE_V_1_0_0 => ret.value
       /\ arg.branchName = MAIN => ~ret.value
  /\ pc = "BranchName.parse" /\ ret.value # None =>
       IsReleasePleaseBranch(arg.branchName)

\* a branch that is recognised although no format parses its version
C4_Witness ==
  /\ pc = "BranchName.isReleasePleaseBranch"
  /\ ret.value
  /\ \A f \in Formats : BranchNameParse(arg.branchName, f) = None

\* C15: BranchName.parse returns no value and calls logger.warn exactly once
\* when decoding the selected shape throws, which is when the Autorelease shape
\* is selected and the injected VersionFormat.parse throws; when nothing throws
\* it calls logger.warn not at all, whether it returns a value or none.
C15_ExceptionsAreLogged ==
  pc \in {"BranchName.parse", "BranchName.parse with a VersionFormat that throws"} =>
    IF AutoreleaseMatches(arg.branchName) /\ arg.versionFormat = THROWING
    THEN /\ ret.value = None
         /\ ret.warnings = <<WarnMessage(arg.branchName)>>
    ELSE /\ ret.warnings = <<>>
         /\ ret.value = BranchNameParse(arg.branchName, arg.versionFormat)

\* the format threw while an Autorelease name was decoded: no value, one warning
C15_Witness ==
  /\ pc = "BranchName.parse with a VersionFormat that throws"
  /\ AutoreleaseMatches(arg.branchName)
  /\ ret.value = None
  /\ Len(ret.warnings) = 1

\* C17: for a string that starts with 'release-please--branches' the
\* Autorelease predicate does not match, BranchName.parse returns no value that
\* holds a version, and it returns the same with every format and with none;
\* 'release-please--branches--release-v1.0.0' is parsed as Default with the
\* target branch 'release-v1.0.0'.
C17_ReservedPrefix ==
  pc = "BranchName.parse" /\ StartsWith(arg.branchName, RELEASE_PLEASE_BRANCH_PREFIX) =>
    /\ ~AutoreleaseMatches(arg.branchName)
    /\ ret.value # None => ret.value[1].version = None /\ ret.value[1].shape # AUTORELEASE
    /\ \A f \in Formats \cup {NoFormat} : BranchNameParse(arg.branchName, f) = ret.value
    /\ arg.branchName = BRANCHES_RELEASE_V_1_0_0 =>
         ret.value = Some(BranchName(DEFAULT, None, Some(RELEASE_V_1_0_0), None, NoFormat))

\* a name with the reserved prefix that AUTORELEASE_PATTERN itself matches was
\* parsed as Default
C17_Witness ==
  /\ pc = "BranchName.parse"
  /\ StartsWith(arg.branchName, RELEASE_PLEASE_BRANCH_PREFIX)
  /\ AutoreleaseMatch(arg.branchName) # None
  /\ arg.versionFormat = SEMVER
  /\ ret.value # None
  /\ ret.value[1].shape = DEFAULT
  /\ ret.value[1].targetBranch = Some(RELEASE_V_1_0_0)

\* text occurs somewhere in s
Contains(s, text) == \E i \in 1..Len(s) : LitAt(s, i, text)

\* C12: the sanitized group name that ofGroupTargetBranch puts in the branch
\* name holds only word characters and '-', holds no two consecutive '-' and so
\* none of the delimiters, and is unchanged by sanitizing it again; 'a/b//c'
\* becomes 'a-b-c'.
C12_SafeGroupName ==
  pc = "BranchName.ofGroupTargetBranch" =>
    LET safe == safeBranchName(arg.group)
    IN  /\ ret.value = TargetBranchNew(GROUP, BRANCHES_PREFIX \o arg.targetBranch
                                                \o GROUPS_DELIM \o safe)
        /\ \A i \in 1..Len(safe) : safe[i] \in Word \cup {"-"}
        /\ ~Contains(safe, <<"-","-">>)
        /\ ~Contains(safe, <<"-","-","b","r","a","n","c","h","e","s","-","-">>)
        /\ ~Contains(safe, COMPONENTS_DELIM)
        /\ ~Contains(safe, GROUPS_DELIM)
        /\ safeBranchName(safe) = safe
        /\ arg.group = A_B_C => safe = <<"a","-","b","-","c">>

\* a group name with a run of disallowed characters and dashes was sanitized
C12_Witness ==
  /\ pc = "BranchName.ofGroupTargetBranch"
  /\ Contains(arg.group, <<"/","-">>)
  /\ Contains(arg.group, <<"@">>)
  /\ safeBranchName(arg.group) # arg.group
  /\ ret.value.component = Some(safeBranchName(arg.group))

\* the builder returned value, it renders as text, and parsing text returns a
\* value with the same fields: the given target branch and component and no
\* version
BuiltAndParsedAs(value, text, targetBranch, component) ==
  /\ BranchNameToString(value) = text
  /\ value.targetBranch = Some(targetBranch)
  /\ value.component = component
  /\ value.version = None
  /\ \A f \in Formats :
       /\ BranchNameParse(text, f) # None
       /\ BranchNameParse(text, f)[1].targetBranch = Some(targetBranch)
       /\ BranchNameParse(text, f)[1].component = component
       /\ BranchNameParse(text, f)[1].version = None

\* C18 as stated: for non-empty t, c and g the builders ofTargetBranch,
\* ofComponentTargetBranch and ofGroupTargetBranch render
\* 'release-please--branches--t', '...--t--components--c' and
\* '...--t--groups--<sanitized g>', and parsing the rendered string returns the
\* fields of the builder: target branch t, and component absent, c or the
\* sanitized g, with no version.
C18_TargetBranchBuilders ==
  /\ pc = "BranchName.ofTargetBranch" =>
       BuiltAndParsedAs(ret.value, BRANCHES_PREFIX \o arg.targetBranch,
                        arg.targetBranch, None)
  /\ pc = "BranchName.ofComponentTargetBranch" =>
       BuiltAndParsedAs(ret.value,
                        BRANCHES_PREFIX \o arg.targetBranch \o COMPONENTS_DELIM
                          \o arg.component,
                        arg.targetBranch, Some(arg.component))
  /\ pc = "BranchName.ofGroupTargetBranch" /\ arg.group # <<>> =>
       BuiltAndParsedAs(ret.value,
                        BRANCHES_PREFIX \o arg.targetBranch \o GROUPS_DELIM
                          \o safeBranchName(arg.group),
                        arg.targetBranch, Some(safeBranchName(arg.group)))

\* s is in the canonical form of format f: f parses it and renders it back
CanonicalFor(f, s) ==
  /\ FormatParse(f, s) # None
  /\ FormatFormat(f, FormatParse(f, s)[1]) = s

\* C20 as stated: when BranchName.parse returns a value for a string with the
\* SemVer or the Ruby format, and the version tail of an Autorelease string is
\* in the canonical form of the format, the value renders as the string.
C20_ParseRenderIdentity ==
  /\ pc = "BranchName.parse"
  /\ arg.versionFormat \in Formats
  /\ ret.value # None
  /\ ret.value[1].shape = AUTORELEASE =>
       CanonicalFor(arg.versionFormat, AutoreleaseMatch(arg.branchName)[1].version)
  => BranchNameToString(ret.value[1]) = arg.branchName

(***************************************************************************)
(* Properties of VersionFormat                                             *)
(***************************************************************************)
\* s as a whole is a version of the grammar of format f: the pattern matches
\* from the first character to the last
WholeMatch(f, s) ==
  LET m == IF f = SEMVER THEN SemverMatch(s) ELSE RubyMatch(s)
  IN  m # None /\ m[1].start = 1 /\ m[1].end = Len(s) + 1

\* C5 as stated: VersionFormat.parse returns no value for every string that as
\* a whole is not a version of the dialect's grammar.
C5_StrictParse ==
  pc = "VersionFormat.parse" /\ ret.version # None =>
    WholeMatch(arg.format, arg.versionString)

\* s is a SemVer string in canonical form
Canonical(s) ==
  /\ WholeMatch(SEMVER, s)
  /\ NoLeadingZero(SemverMatch(s)[1].major)
  /\ NoLeadingZero(SemverMatch(s)[1].minor)
  /\ NoLeadingZero(SemverMatch(s)[1].patch)

\* C6 as stated: a canonical string of the SemVer grammar is parsed, and
\* formatting the parsed Version gives the string back.
C6_SemverRoundTrip ==
  pc = "VersionFormat.parse" /\ arg.format = SEMVER /\ Canonical(arg.versionString) =>
    /\ ret.version # None
    /\ SemverFormat(ret.version[1]) = arg.versionString

\* C6 amended: a canonical string of the SemVer grammar in which a '+' is
\* followed by at least one character is parsed, and formatting the parsed
\* Version gives the string back.
C6_SemverRoundTripBuildNotEmpty ==
  /\ pc = "VersionFormat.parse"
  /\ arg.format = SEMVER
  /\ Canonical(arg.versionString)
  /\ SemverMatch(arg.versionString)[1].build # Some(<<>>)
  => /\ ret.version # None
     /\ SemverFormat(ret.version[1]) = arg.versionString

\* a canonical string with a prerelease and a build was parsed and is rendered
\* back
C6_Witness ==
  /\ pc = "VersionFormat.parse"
  /\ arg.format = SEMVER
  /\ Canonical(arg.versionString)
  /\ ret.version # None
  /\ Truthy(ret.version[1].preRelease)
  /\ Truthy(ret.version[1].build)
  /\ SemverFormat(ret.version[1]) = arg.versionString

\* C7: the Ruby rendering of a Version without build metadata is parsed by the
\* Ruby format, and rendering the parsed Version gives the same text.
C7_RubyIdempotent ==
  pc = "VersionFormat.format" /\ arg.format = RUBY /\ arg.version.build = None =>
    /\ RubyParse(ret.text) # None
    /\ RubyFormat(RubyParse(ret.text)[1]) = ret.text

\* a Version with a dotted prerelease was rendered and parses back to itself
C7_Witness ==
  /\ pc = "VersionFormat.format"
  /\ arg.format = RUBY
  /\ arg.version.build = None
  /\ Truthy(arg.version.preRelease)
  /\ "." \in {arg.version.preRelease[1][k] : k \in 1..Len(arg.version.preRelease[1])}
  /\ RubyParse(ret.text) = Some(arg.version)

\* C9: a Version parsed by the Ruby format has no build, and its prerelease is
\* all the text after the '.' or '-' that follows major.minor.patch, a '+...'
\* suffix included; without such a separator and text it has no prerelease.
C9_RubyNoBuild ==
  pc = "VersionFormat.parse" /\ arg.format = RUBY /\ ret.version # None =>
    LET s == arg.versionString
        v == ret.version[1]
        c == TripleAt(s, FirstTriple(s))[1].c
    IN  /\ v.build = None
        /\ IF c < Len(s) /\ s[c] \in {".", "-"}
           THEN v.preRelease = Some(From(s, c + 1))
           ELSE v.preRelease = None
        /\ s = <<"1",".","2",".","3",".">> \o RC_1_BUILD_123 =>
             v.preRelease = Some(RC_1_BUILD_123)

\* a string with a '+' suffix was parsed and the suffix is in the prerelease
C9_Witness ==
  /\ pc = "VersionFormat.parse"
  /\ arg.format = RUBY
  /\ ret.version # None
  /\ ret.version[1].preRelease # None
  /\ "+" \in {ret.version[1].preRelease[1][k] : k \in 1..Len(ret.version[1].preRelease[1])}

\* C10: the Ruby rendering is major.minor.patch, followed by '.' and the
\* prerelease when there is one, and it is the same for every Version that
\* differs in the build alone.
C10_RubyDropsBuild ==
  pc = "VersionFormat.format" /\ arg.format = RUBY =>
    LET v == arg.version
        digits == IntToStr(v.major) \o <<".">> \o IntToStr(v.minor) \o <<".">>
                    \o IntToStr(v.patch)
    IN  /\ ret.text = IF Truthy(v.preRelease) THEN digits \o <<".">> \o v.preRelease[1]
                      ELSE digits
        /\ \A build \in Builds :
             RubyFormat(Version(v.major, v.minor, v.patch, v.preRelease, build)) = ret.text

\* a Version with a prerelease and a build was rendered
C10_Witness ==
  /\ pc = "VersionFormat.format"
  /\ arg.format = RUBY
  /\ Truthy(arg.version.preRelease)
  /\ Truthy(arg.version.build)
  /\ ret.text = RubyFormat(Version(arg.version.major, arg.version.minor,
                                   arg.version.patch, arg.version.preRelease, None))

(***************************************************************************)
(* Properties of Version.compare                                           *)
(***************************************************************************)
SameRelease(a, b) ==
  a.major = b.major /\ a.minor = b.minor /\ a.patch = b.patch

\* C8 as stated: compare returns less, equal or greater for every two
\* Versions, the opposite when they are swapped, equal exactly when they agree
\* on major, minor, patch and preRelease, transitively, and a Version without a
\* prerelease is greater than one with the same numbers and a prerelease.
C8_TotalOrder ==
  pc = "Version.compare" =>
    LET a == arg.this
        b == arg.other
    IN  /\ ~ret.threw
        /\ ret.value[1] \in {-1, 0, 1}
        /\ VersionCompare(b, a).value = Some(0 - ret.value[1])
        /\ ret.value[1] = 0 <=> (SameRelease(a, b) /\ a.preRelease = b.preRelease)
        /\ \A c \in ComparedVersions :
             ret.value[1] = -1 /\ VersionCompare(b, c).value = Some(-1) =>
               VersionCompare(a, c).value = Some(-1)
        /\ SameRelease(a, b) /\ ~Truthy(a.preRelease) /\ Truthy(b.preRelease) =>
             ret.value[1] = 1

(***************************************************************************)
(* Properties of Version                                                   *)
(***************************************************************************)
\* C11: for every Version, whether constructed, parsed by the Ruby format or
\* taken from a branch name parsed with the Ruby format, toString is the SemVer
\* rendering major.minor.patch[-preRelease][+build]; the Version of
\* 'release-v1.2.3.alpha' parsed with the Ruby format renders as '1.2.3-alpha'.
C11_ToStringIsSemver ==
  pc = "Version.toString" =>
    LET v == arg.version
        digits == IntToStr(v.major) \o <<".">> \o IntToStr(v.minor) \o <<".">>
                    \o IntToStr(v.patch)
    IN  /\ ret.text = SemverFormat(v)
        /\ ret.text = digits
                        \o (IF Truthy(v.preRelease) THEN <<"-">> \o v.preRelease[1] ELSE <<>>)
                        \o (IF Truthy(v.build) THEN <<"+">> \o v.build[1] ELSE <<>>)
        /\ arg.source = RELEASE_V_1_2_3_ALPHA =>
             ret.text = <<"1",".","2",".","3","-","a","l","p","h","a">>

\* a Version that a branch name parsed with the Ruby format holds, with a
\* prerelease, was rendered with a hyphen
C11_Witness ==
  /\ pc = "Version.toString"
  /\ arg.producer = "BranchName.parse"
  /\ arg.source = RELEASE_V_1_2_3_ALPHA
  /\ Truthy(arg.version.preRelease)
  /\ ret.text # RubyFormat(arg.version)
  /\ ret.text = SemverFormat(arg.version)

\* C16: without a custom pattern Version.parse returns the Version that
\* SemverVersionFormat.parse returns, and throws an error that carries the
\* string when that returns none; with a custom pattern it throws when the
\* pattern does not match; it prints the deprecation warning once whenever a
\* custom pattern is supplied, whether it returns or throws, and never
\* otherwise.
C16_LegacyParseThrows ==
  pc = "Version.parse" =>
    LET s == arg.versionString
    IN  /\ arg.versionRegex = None =>
             /\ ret.warnings = <<>>
             /\ IF SemverParse(s) # None
                THEN ~ret.threw /\ ret.version = SemverParse(s)
                ELSE /\ ret.threw
                     /\ ret.error # None
                     /\ ret.error[1][2] = s
        /\ arg.versionRegex # None =>
             /\ Len(ret.warnings) = 1
             /\ (IF arg.versionRegex[1] = VERSION_REGEX THEN SemverMatch(s) ELSE RubyMatch(s))
                  = None => ret.threw /\ ret.error[1][2] = s
        /\ ret.threw <=> ret.version = None

\* a custom pattern was supplied, the string did not match, the call threw and
\* the warning was printed
C16_Witness ==
  /\ pc = "Version.parse"
  /\ arg.versionRegex # None
  /\ ret.threw
  /\ ret.warnings = <<DEPRECATION_WARNING>>
  /\ ret.error[1][2] = arg.versionString

(***************************************************************************)
(* Properties of TagName                                                   *)
(***************************************************************************)
\* s is a version that the SemVer specification accepts
StrictSemver(s) == SemVerNew(s) # None

\* s is an optional non-empty component with one non-alphanumeric separator,
\* an optional 'v' and a canonical SemVer version
TagShaped(s) ==
  \E p \in 0..Len(s) :
    /\ p = 0 \/ (p >= 2 /\ s[p] \notin AlphaNumeric)
    /\ \/ StrictSemver(From(s, p + 1))
       \/ p < Len(s) /\ s[p + 1] = "v" /\ StrictSemver(From(s, p + 2))

\* C13 as stated: a tag string made of an optional non-empty component and
\* separator, an optional 'v' and a canonical SemVer version is parsed with the
\* SemVer format, and the parsed TagName renders as the same string.
C13_TagStringRoundTrip ==
  pc = "TagName.parse" /\ arg.versionFormat = SEMVER /\ TagShaped(arg.tagName) =>
    /\ ret.value # None
    /\ TagNameToString(ret.value[1]) = arg.tagName

\* C14: TagName.parse returns no value when the string does not match the tag
\* grammar or the format does not parse the captured version tail; otherwise it
\* returns a TagName whose version is what the format parses from the tail and
\* whose component is what extractComponent returns.  extractComponent takes no
\* format and returns the component group of the match; it is 'release' for
\* 'release-v1.2.3-alpha.1'.
C14_TagParseAllOrNothing ==
  /\ pc = "TagName.parse" =>
       IF TagMatch(arg.tagName) = None
       THEN ret.value = None
       ELSE LET tail == TagMatch(arg.tagName)[1].version
                version == InjectedParse(arg.versionFormat, tail)
            IN  IF version = None THEN ret.value = None
                ELSE /\ ret.value # None
                     /\ ret.value[1].version = version[1]
                     /\ ret.value[1].component = ExtractComponent(arg.tagName)
  /\ pc = "TagName.extractComponent" =>
       /\ DOMAIN arg = {"tagName"}
       /\ \A f \in Formats \cup {REJECTING} :
            TagNameParse(arg.tagName, f) # None =>
              TagNameParse(arg.tagName, f)[1].component = ret.value
       /\ TagMatch(arg.tagName) = None => ret.value = None
       /\ arg.tagName = RELEASE_V_1_2_3_ALPHA_1 =>
            ret.value = Some(<<"r","e","l","e","a","s","e">>)

\* a tag with a component matched the grammar, the format rejected its version
\* tail and parse returned no value
C14_Witness ==
  /\ pc = "TagName.parse"
  /\ arg.versionFormat = REJECTING
  /\ ExtractComponent(arg.tagName) # None
  /\ ret.value = None
  /\ TagNameParse(arg.tagName, RUBY) # None

\* every character of s is a letter or a digit
IsAlphaNumeric(s) == \A i \in 1..Len(s) : s[i] \in AlphaNumeric

\* C19 as stated: a TagName built from a Version without build metadata, an
\* optional alphanumeric component, a separator and includeV renders as a string
\* that TagName.parse with the SemVer format decodes into the same component,
\* separator, includeV and version, and from which extractComponent returns the
\* component.
C19_TagStructuralRoundTrip ==
  /\ pc = "TagName.toString"
  /\ arg.this.version.build = None
  /\ StrictSemver(VersionToString(arg.this.version))
  /\ arg.this.component # None => IsAlphaNumeric(arg.this.component[1])
  => /\ TagNameParse(ret.text, SEMVER) = Some(arg.this)
     /\ ExtractComponent(ret.text) = arg.this.component

====
